---- MODULE Spec2Model ----
(***************************************************************************)
(* The IAS provisioning client of eventing-auth-manager                   *)
(* (internal/ias/client.go): CreateApplication and DeleteApplication of    *)
(* one client instance, the lazily filled discovery cache of that          *)
(* instance, and the remote application directory the calls act on.        *)
(*                                                                         *)
(* Every remote call of the client is one step: the step performs the      *)
(* call against the directory, takes the response and runs the client      *)
(* code up to the next remote call, the next access to the cache or the    *)
(* return statement.  The return that follows a remote call is a step of   *)
(* its own: the service has answered, and another goroutine can act on the *)
(* directory, or end the program, before the caller has its result.        *)
(*                                                                         *)
(* Go values: a string is a TLA+ string, a *string (or any pointer) is a   *)
(* set with at most one element ({} is nil), a uuid.UUID is a positive     *)
(* number (0 is the zero UUID).                                            *)
(***************************************************************************)
EXTENDS Integers, Sequences, FiniteSets, TLC

\* ------------------------------------------------------------------ bounds
\* Invocations of CreateApplication / DeleteApplication started in a run.
MaxCalls == 3
\* Records present in the directory when the client is constructed.
MaxInit == 2
\* Faulty answers of the service or the network in a run.
MaxFaults == 1

\* The goroutines that call the client, and the application names they use.
Procs == {1, 2}
NameOrder == <<"svc-a", "svc-b">>
Names == {NameOrder[i] : i \in 1 .. Len(NameOrder)}

\* --------------------------------------------------------------- constants
StatusOK == 200
StatusCreated == 201
StatusNotFound == 404
\* Statuses the client has no case for (5xx, 409, ...).
OtherStatuses == {500}

errCreateApplication == "failed to create application"
errFetchExistingApplications == "failed to fetch existing applications"
errDeleteExistingApplicationBeforeCreation == "failed to delete existing application before creation"
errCreateAPISecret == "failed to create api secret"
errRetrieveClientID == "failed to retrieve client ID"
errFetchTokenURL == "failed to fetch token url"
errFetchJWKSURI == "failed to fetch jwks uri"
errDeleteApplication == "failed to delete application"
errMultipleApplications == "found multiple applications with the same name"
errApplicationIDFromHeader == "failed to retrieve application ID from header"
\* The error of the transport (err != nil of an api or oidc call), a nil error,
\* and the run-time panic of a nil pointer dereference.
errTransport == "transport error"
errNil == "<nil>"
panicNilDereference == "panic: nil pointer dereference"

\* ---------------------------------------------------------------- pointers
Nil == {}
Ptr(v) == {v}
Deref(p) == CHOOSE v \in p : TRUE

\* ------------------------------------------------------------------- uuid
AllIDs == 1 .. (MaxInit + MaxCalls)
ZeroUUID == 0

\* uuid.UUID.String()
UUIDString(id) == "uuid-" \o ToString(id)

\* uuid.Parse on one path segment (a sequence of characters; an identifier
\* is one character of the model).
ParseUUID(seg) ==
    IF Len(seg) = 1 /\ \E i \in AllIDs : UUIDString(i) = seg[1]
    THEN [id |-> CHOOSE i \in AllIDs : UUIDString(i) = seg[1], ok |-> TRUE]
    ELSE [id |-> ZeroUUID, ok |-> FALSE]

\* strings.Split(s, sep): the segments between the separators; the empty
\* string gives one empty segment.
RECURSIVE Split(_, _)
Split(s, sep) ==
    IF s = <<>> THEN << <<>> >>
    ELSE LET rest == Split(Tail(s), sep)
         IN  IF Head(s) = sep
             THEN << <<>> >> \o rest
             ELSE << <<Head(s)>> \o rest[1] >> \o Tail(rest)

\* First segment instead of the last one.
extractApplicationID_first(locationHeader) ==
    LET s == Split(locationHeader, "/")
    IN  ParseUUID(s[1])

extractApplicationID(locationHeader) ==
    LET s == Split(locationHeader, "/")
        appID == s[Len(s)]
    IN  ParseUUID(appID)

\* The Application value, and the zero value returned beside an error.
NewApplication(id, clientID, clientSecret, tokenURL, jwksURI) ==
    [id |-> id, clientID |-> clientID, clientSecret |-> clientSecret,
     tokenURL |-> tokenURL, jwksURI |-> jwksURI]

ZeroApplication == NewApplication("", "", "", "", "")

\* ------------------------------------------------------- the remote service
\* What the tenant answers.  A record of the directory is
\* [id, name, secret, clientId]; the client ID exists once a secret does.
\* A transport error means the request had no effect.

SecretString(k) == "secret-" \o ToString(k)
ClientIDString(id) == "cid-" \o ToString(id)
TokenEndpoints == {"https://t/oauth/token"}
JWKSURIs == {"https://t/jwks"}

\* The values of a discovery document that was changed while the client is
\* in use.
ChangedTokenEndpoints == {"https://u/oauth/token"}
ChangedJWKSURIs == {"https://u/jwks"}

\* The Location header of a 201 with the record's URL, and the headers the
\* identifier cannot be read from (absent, trailing slash, no identifier).
Location(id) == <<"t", "/", "Applications", "/", "v1", "/", UUIDString(id)>>

MalformedLocations(id) ==
    { <<"t", "/", "Applications", "/", "v1", "/", UUIDString(id), "/">>,
      <<"t", "/", "Applications">>,
      <<>> }

\* An answer is [res, dir, fault]: the response, the directory after the
\* request, and whether the answer is a fault of the service or the network
\* (a transport error, a status the API does not name for the request, a
\* response that lacks what it should carry).
Answer(res, dir, fault) == [res |-> res, dir |-> dir, fault |-> fault]

\* GET Applications?filter=name eq <name>.  With no match the tenant answers
\* 404 or 200 with an empty list; 200 with an absent list is a response that
\* lacks what it should carry.
GetAllApplicationsResponses(dir, n) ==
    LET matches == {a \in dir : a.name = n}
        R(neterr, st, list) == [neterr |-> neterr, status |-> st, Applications |-> list]
    IN  {Answer(R(TRUE, 0, Nil), dir, TRUE)}
        \cup {Answer(R(FALSE, st, Nil), dir, TRUE) : st \in OtherStatuses}
        \cup {Answer(R(FALSE, StatusOK, Ptr(matches)), dir, FALSE)}
        \cup (IF matches = {}
              THEN {Answer(R(FALSE, StatusNotFound, Nil), dir, FALSE),
                    Answer(R(FALSE, StatusOK, Nil), dir, TRUE)}
              ELSE {})

\* DELETE Applications/<id>
DeleteApplicationResponses(dir, id) ==
    LET R(neterr, st) == [neterr |-> neterr, status |-> st]
    IN  {Answer(R(TRUE, 0), dir, TRUE)}
        \cup {Answer(R(FALSE, st), dir, TRUE) : st \in OtherStatuses}
        \cup (IF \E a \in dir : a.id = id
              THEN {Answer(R(FALSE, StatusOK), {a \in dir : a.id # id}, FALSE)}
              ELSE {Answer(R(FALSE, StatusNotFound), dir, FALSE)})

\* POST Applications: the new record gets the identifier id.
CreateApplicationResponses(dir, n, id) ==
    LET R(neterr, st, loc) == [neterr |-> neterr, status |-> st, Location |-> loc]
        created == dir \cup {[id |-> id, name |-> n, secret |-> Nil, clientId |-> Nil]}
    IN  {Answer(R(TRUE, 0, <<>>), dir, TRUE)}
        \cup {Answer(R(FALSE, st, <<>>), dir, TRUE) : st \in OtherStatuses}
        \cup {Answer(R(FALSE, StatusCreated, Location(id)), created, FALSE)}
        \cup {Answer(R(FALSE, StatusCreated, loc), created, TRUE) : loc \in MalformedLocations(id)}

\* POST Applications/<id>/apiSecrets: the record gets its secret and its
\* client ID.  The secret is the tenant's choice and a record gets one at
\* most, so the secrets are named after their records.
CreateApiSecretResponses(dir, id) ==
    LET R(neterr, st, secret) == [neterr |-> neterr, status |-> st, Secret |-> secret]
        withSecret == {IF a.id = id
                       THEN [a EXCEPT !.secret = Ptr(SecretString(id)),
                                      !.clientId = Ptr(ClientIDString(id))]
                       ELSE a : a \in dir}
    IN  {Answer(R(TRUE, 0, Nil), dir, TRUE)}
        \cup {Answer(R(FALSE, st, Nil), dir, TRUE) : st \in OtherStatuses}
        \cup (IF \E a \in dir : a.id = id
              THEN {Answer(R(FALSE, StatusCreated, Ptr(SecretString(id))), withSecret, FALSE)}
                   \cup {Answer(R(FALSE, StatusCreated, s), withSecret, TRUE) : s \in {Ptr(""), Nil}}
              ELSE {Answer(R(FALSE, StatusNotFound, Nil), dir, FALSE)})

\* GET Applications/<id>
GetApplicationResponses(dir, id) ==
    LET R(neterr, st, cid) == [neterr |-> neterr, status |-> st, ClientId |-> cid]
    IN  {Answer(R(TRUE, 0, Nil), dir, TRUE)}
        \cup {Answer(R(FALSE, st, Nil), dir, TRUE) : st \in OtherStatuses}
        \cup (IF \E a \in dir : a.id = id
              THEN LET cid == (CHOOSE a \in dir : a.id = id).clientId
                   IN  {Answer(R(FALSE, StatusOK, cid), dir, FALSE)}
                       \cup {Answer(R(FALSE, StatusOK, x), dir, TRUE) : x \in {Ptr(""), Nil} \ {cid}}
              ELSE {Answer(R(FALSE, StatusNotFound, Nil), dir, FALSE)})

\* The discovery document: a transport error, a document without the field,
\* or the field's value.  The tenant's document is taken not to change: an
\* answer from a changed document is a fault.
DiscoveryResponses(values, changed, dir) ==
    LET R(neterr, val) == [neterr |-> neterr, status |-> 0, val |-> val]
    IN  {Answer(R(TRUE, Nil), dir, TRUE), Answer(R(FALSE, Nil), dir, TRUE)}
        \cup {Answer(R(FALSE, Ptr(v)), dir, FALSE) : v \in values}
        \cup {Answer(R(FALSE, Ptr(v)), dir, TRUE) : v \in changed}

\* ------------------------------------------------- the client's functions
\* Each takes the response of its remote call and gives what the Go
\* function returns.

\* One application found is taken for none: the caller deletes nothing.
getApplicationByName_foundIsNoMatch(res, n) ==
    IF res.neterr THEN [app |-> Nil, err |-> errTransport]
    ELSE IF res.status = StatusNotFound THEN [app |-> Nil, err |-> errNil]
    ELSE IF res.status # StatusOK THEN [app |-> Nil, err |-> errFetchExistingApplications]
    ELSE IF res.Applications # Nil /\ Cardinality(Deref(res.Applications)) > 1
         THEN [app |-> Nil, err |-> errMultipleApplications]
         ELSE [app |-> Nil, err |-> errNil]

\* Of several applications found the first is returned.
getApplicationByName_firstOfMany(res, n) ==
    IF res.neterr THEN [app |-> Nil, err |-> errTransport]
    ELSE IF res.status = StatusNotFound THEN [app |-> Nil, err |-> errNil]
    ELSE IF res.status # StatusOK THEN [app |-> Nil, err |-> errFetchExistingApplications]
    ELSE IF res.Applications # Nil /\ Deref(res.Applications) # {}
         THEN [app |-> Ptr(CHOOSE a \in Deref(res.Applications) :
                             \A b \in Deref(res.Applications) : a.id <= b.id),
               err |-> errNil]
         ELSE [app |-> Nil, err |-> errNil]

\* The switch has no case 0: an empty list falls to the default case.
getApplicationByName_noCaseZero(res, n) ==
    IF res.neterr THEN [app |-> Nil, err |-> errTransport]
    ELSE IF res.status = StatusNotFound THEN [app |-> Nil, err |-> errNil]
    ELSE IF res.status # StatusOK THEN [app |-> Nil, err |-> errFetchExistingApplications]
    ELSE IF res.Applications # Nil
         THEN LET found == Deref(res.Applications)
              IN  CASE Cardinality(found) = 1 -> [app |-> found, err |-> errNil]
                    [] OTHER -> [app |-> Nil, err |-> errMultipleApplications]
         ELSE [app |-> Nil, err |-> errNil]

\* The status 404 is not told from the other statuses.
getApplicationByName_404IsError(res, n) ==
    IF res.neterr THEN [app |-> Nil, err |-> errTransport]
    ELSE IF res.status # StatusOK THEN [app |-> Nil, err |-> errFetchExistingApplications]
    ELSE IF res.Applications # Nil
         THEN LET found == Deref(res.Applications)
              IN  CASE Cardinality(found) = 0 -> [app |-> Nil, err |-> errNil]
                    [] Cardinality(found) = 1 -> [app |-> found, err |-> errNil]
                    [] OTHER -> [app |-> Nil, err |-> errMultipleApplications]
         ELSE [app |-> Nil, err |-> errNil]

getApplicationByName(res, n) ==
    IF res.neterr THEN [app |-> Nil, err |-> errTransport]
    ELSE IF res.status = StatusNotFound THEN [app |-> Nil, err |-> errNil]
    ELSE IF res.status # StatusOK THEN [app |-> Nil, err |-> errFetchExistingApplications]
    ELSE IF res.Applications # Nil
         THEN LET found == Deref(res.Applications)
              IN  CASE Cardinality(found) = 0 -> [app |-> Nil, err |-> errNil]
                    [] Cardinality(found) = 1 -> [app |-> found, err |-> errNil]
                    [] OTHER -> [app |-> Nil, err |-> errMultipleApplications]
         ELSE [app |-> Nil, err |-> errNil]

\* Every status of the delete counts as success.
deleteExisting_anyStatus(res) ==
    IF res.neterr THEN errTransport ELSE errNil

\* CreateApplication, the deletion of the existing application.
deleteExisting(res) ==
    IF res.neterr THEN errTransport
    ELSE IF res.status # StatusOK THEN errDeleteExistingApplicationBeforeCreation
    ELSE errNil

\* The status of the delete is not looked at.
deleteApplication_ignoreStatus(res) ==
    IF res.neterr THEN errTransport ELSE errNil

\* The status 404 is not told from the other statuses.
deleteApplication_404IsError(res) ==
    IF res.neterr THEN errTransport
    ELSE IF res.status # StatusOK THEN errDeleteApplication
    ELSE errNil

deleteApplication(res) ==
    IF res.neterr THEN errTransport
    ELSE IF res.status = StatusNotFound THEN errNil
    ELSE IF res.status # StatusOK THEN errDeleteApplication
    ELSE errNil

\* The status of the create call is not looked at.
createNewApplication_noStatusCheck(res) ==
    IF res.neterr THEN [id |-> ZeroUUID, err |-> errTransport]
    ELSE LET parsed == extractApplicationID(res.Location)
         IN  [id |-> parsed.id,
              err |-> IF parsed.ok THEN errNil ELSE errApplicationIDFromHeader]

createNewApplication(res) ==
    IF res.neterr THEN [id |-> ZeroUUID, err |-> errTransport]
    ELSE IF res.status # StatusCreated THEN [id |-> ZeroUUID, err |-> errCreateApplication]
    ELSE LET parsed == extractApplicationID(res.Location)
         IN  [id |-> parsed.id,
              err |-> IF parsed.ok THEN errNil ELSE errApplicationIDFromHeader]

createSecret(res) ==
    IF res.neterr THEN [secret |-> Nil, err |-> errTransport]
    ELSE IF res.status # StatusCreated THEN [secret |-> Nil, err |-> errCreateAPISecret]
    ELSE [secret |-> res.Secret, err |-> errNil]

getClientID(res) ==
    IF res.neterr THEN [clientID |-> Nil, err |-> errTransport]
    ELSE IF res.status # StatusOK THEN [clientID |-> Nil, err |-> errRetrieveClientID]
    ELSE [clientID |-> res.ClientId, err |-> errNil]

\* A document without the field gives the empty string as the value.
fetchDiscovery_emptyOnAbsent(res, errAbsent) ==
    IF res.neterr THEN [val |-> Nil, err |-> errTransport]
    ELSE IF res.val = Nil THEN [val |-> Ptr(""), err |-> errNil]
    ELSE [val |-> res.val, err |-> errNil]

\* GetTokenURL / GetJWKSURI with an empty cache field: the value to cache
\* and return.
fetchDiscovery(res, errAbsent) ==
    IF res.neterr THEN [val |-> Nil, err |-> errTransport]
    ELSE IF res.val = Nil THEN [val |-> Nil, err |-> errAbsent]
    ELSE [val |-> res.val, err |-> errNil]

\* The client ID and the client secret change places.
returnApplication_swapped(l, jwksURI) ==
    IF l.clientID = Nil \/ l.clientSecret = Nil \/ l.tokenURL = Nil \/ jwksURI = Nil
    THEN [app |-> ZeroApplication, err |-> panicNilDereference]
    ELSE [app |-> NewApplication(UUIDString(l.appID), Deref(l.clientSecret),
                                 Deref(l.clientID), Deref(l.tokenURL), Deref(jwksURI)),
          err |-> errNil]

\* The Application carries the identifier of the existing application, the
\* zero identifier when the lookup found none.
returnApplication_existingID(l, jwksURI) ==
    IF l.clientID = Nil \/ l.clientSecret = Nil \/ l.tokenURL = Nil \/ jwksURI = Nil
    THEN [app |-> ZeroApplication, err |-> panicNilDereference]
    ELSE [app |-> NewApplication(UUIDString(IF l.existingApp = Nil THEN ZeroUUID
                                            ELSE Deref(l.existingApp).id),
                                 Deref(l.clientID),
                                 Deref(l.clientSecret), Deref(l.tokenURL), Deref(jwksURI)),
          err |-> errNil]

\* CreateApplication, the return statement: the Application of the call's
\* locals l and the JWKS URI; a nil clientID or clientSecret panics.
returnApplication(l, jwksURI) ==
    IF l.clientID = Nil \/ l.clientSecret = Nil \/ l.tokenURL = Nil \/ jwksURI = Nil
    THEN [app |-> ZeroApplication, err |-> panicNilDereference]
    ELSE [app |-> NewApplication(UUIDString(l.appID), Deref(l.clientID),
                                 Deref(l.clientSecret), Deref(l.tokenURL), Deref(jwksURI)),
          err |-> errNil]

\* ------------------------------------------------------------------ state
VARIABLES
    pc,          \* per goroutine: "idle", the call, the read of the cache or the
                 \* return it is about to make ("return": the one after a remote
                 \* call), or "panicked"
    op,          \* per goroutine: the operation it is in
    name,        \* per goroutine: the name argument
    local,       \* per goroutine: existingApp, appID, clientSecret, clientID, tokenURL,
                 \* jwksURI, err
    c,           \* the client: the cache fields tokenURL and jwksURI
    directory,   \* the tenant's application records
    nextID,      \* the identifier the tenant gives the next record
    calls,       \* per goroutine: the remote calls of the invocation, with their answers
    before,      \* per goroutine, under sequential use: the directory when the invocation began
    fetches,     \* discovery fetches issued by this client, per field
    faults,      \* faulty answers so far
    started,     \* invocations begun
    result,      \* per goroutine: what its last invocation returned, until its next one begins
    last,        \* the invocation that returned last, in short
    prev,        \* the invocation that returned before it, while no later one has begun
    concurrent   \* how the client is used: by every goroutine at once, or by one

vars == <<pc, op, name, local, c, directory, nextID, calls, before,
          fetches, faults, started, result, last, prev, concurrent>>

ZeroLocals == [existingApp |-> Nil, appID |-> ZeroUUID, clientSecret |-> Nil,
               clientID |-> Nil, tokenURL |-> Nil, jwksURI |-> Nil, err |-> errNil]

\* What an invocation returned: the operation and its argument, the error and
\* the Application, the remote calls it made, and the directory when it began
\* and when it returned (under sequential use, where the difference between
\* the two is the invocation's own doing; {} under concurrent use).
Result(o, n, err, app, log, dirBefore, dirAfter) ==
    [op |-> o, name |-> n, err |-> err, app |-> app, calls |-> log,
     before |-> dirBefore, after |-> dirAfter]

NoResult == Result("none", "", errNil, ZeroApplication, <<>>, {}, {})

\* The identifier of the record the invocation with the calls log created
\* in the directory (ZeroUUID when it created none).
Created(log) ==
    IF \E i \in 1 .. Len(log) : log[i].api = "CreateApplication" /\ log[i].id # ZeroUUID
    THEN log[CHOOSE i \in 1 .. Len(log) :
                 log[i].api = "CreateApplication" /\ log[i].id # ZeroUUID].id
    ELSE ZeroUUID

\* The identifiers of the records the invocation with the calls log deleted.
Deleted(log) ==
    {log[i].id : i \in {j \in 1 .. Len(log) :
        log[j].api = "DeleteApplication" /\ ~log[j].neterr /\ log[j].status = StatusOK}}

\* A returned invocation in short.
Short(r) ==
    [op |-> r.op, name |-> r.name, err |-> r.err, id |-> r.app.id,
     clientSecret |-> r.app.clientSecret, created |-> Created(r.calls),
     deleted |-> Deleted(r.calls)]

NoCall == Short(NoResult)

InitRecords == {[id |-> i, name |-> n, secret |-> Nil, clientId |-> Nil]
                  : i \in 1 .. MaxInit, n \in Names}

NameIndex(n) == CHOOSE i \in 1 .. Len(NameOrder) : NameOrder[i] = n

\* Any records may exist before the client does: the tenant does not keep
\* names unique.  The identifiers are the tenant's choice, so one directory
\* stands for all that differ from it in the identifiers only: the one with
\* the identifiers 1, 2, ... given in the order of the names.
InitDirectories ==
    {d \in SUBSET InitRecords :
        /\ {a.id : a \in d} = 1 .. Cardinality(d)
        /\ \A a, b \in d : a.id <= b.id => NameIndex(a.name) <= NameIndex(b.name)}

\* The client treats no name differently from another, and under concurrent
\* use the goroutines take any names: one directory stands for all that
\* differ from it in which name has which records, the one in which an
\* earlier name has at least as many records as a later one.
ConcurrentInitDirectories ==
    {d \in InitDirectories :
        \A i, j \in 1 .. Len(NameOrder) :
          i <= j => Cardinality({a \in d : a.name = NameOrder[i]})
                      >= Cardinality({a \in d : a.name = NameOrder[j]})}

UniqueNames(d) == \A a, b \in d : a.name = b.name => a = b

InitClient ==
    /\ pc = [p \in Procs |-> "idle"]
    /\ op = [p \in Procs |-> "none"]
    /\ name = [p \in Procs |-> ""]
    /\ local = [p \in Procs |-> ZeroLocals]
    /\ c = [tokenURL |-> Nil, jwksURI |-> Nil]
    /\ nextID = MaxInit + 1
    /\ calls = [p \in Procs |-> <<>>]
    /\ before = [p \in Procs |-> {}]
    /\ fetches = [tokenURL |-> 0, jwksURI |-> 0]
    /\ faults = 0
    /\ started = 0
    /\ result = [p \in Procs |-> NoResult]
    /\ last = NoCall
    /\ prev = NoCall

\* Concurrent use: every goroutine makes one invocation, in any interleaving
\* with the others'.
Init == InitClient /\ concurrent = TRUE /\ directory \in ConcurrentInitDirectories

\* A nil dereference ends the program.
Running == \A q \in Procs : pc[q] # "panicked"

Call(api, res, id, val) ==
    [api |-> api, neterr |-> res.neterr, status |-> res.status, id |-> id, val |-> val]

\* The invocation of p goes on to its next remote call.
Goto(p, next, l, log) ==
    /\ pc' = [pc EXCEPT ![p] = next]
    /\ local' = [local EXCEPT ![p] = l]
    /\ calls' = [calls EXCEPT ![p] = log]
    /\ UNCHANGED <<op, name, before, started, result, last, prev, concurrent>>

\* The invocation of p returns (err, app), the directory being dir.
Return(p, err, app, log, dir) ==
    /\ pc' = [pc EXCEPT ![p] = IF err = panicNilDereference THEN "panicked" ELSE "idle"]
    /\ LET r == Result(op[p], name[p], err, app, log, before[p],
                       IF concurrent THEN {} ELSE dir)
       IN  /\ result' = [result EXCEPT ![p] = r]
           /\ last' = Short(r)
           /\ prev' = last
    /\ op' = [op EXCEPT ![p] = "none"]
    /\ name' = [name EXCEPT ![p] = ""]
    /\ local' = [local EXCEPT ![p] = ZeroLocals]
    /\ calls' = [calls EXCEPT ![p] = <<>>]
    /\ before' = [before EXCEPT ![p] = {}]
    /\ UNCHANGED <<started, concurrent>>

\* The remote call of p was answered and the invocation is about to return
\* err: the service has done what the request asked for, the caller has not
\* got the result yet.
Leave(p, err, log) == Goto(p, "return", [local[p] EXCEPT !.err = err], log)

\* The caller p may begin an invocation.
CanBegin(p) ==
    /\ Running
    /\ pc[p] = "idle"
    /\ started < MaxCalls
    /\ IF concurrent THEN result[p] = NoResult ELSE p = 1

Begin(p, o, n) ==
    /\ started' = started + 1
    /\ pc' = [pc EXCEPT ![p] = "getApplicationByName"]
    /\ op' = [op EXCEPT ![p] = o]
    /\ name' = [name EXCEPT ![p] = n]
    /\ before' = [before EXCEPT ![p] = IF concurrent THEN {} ELSE directory]
    /\ result' = [result EXCEPT ![p] = NoResult]
    /\ prev' = NoCall
    /\ UNCHANGED <<local, c, directory, nextID, calls, fetches, faults, last,
                   concurrent>>

\* ---------------------------------------------------------------- actions
CreateApplication(p, n) ==
    /\ CanBegin(p)
    /\ Begin(p, "CreateApplication", n)

DeleteApplication(p, n) ==
    /\ CanBegin(p)
    /\ Begin(p, "DeleteApplication", n)

\* The service gives the answer x to the request of this step.
Served(x) ==
    /\ x.fault => faults < MaxFaults
    /\ faults' = IF x.fault THEN faults + 1 ELSE faults
    /\ directory' = x.dir

\* CreateApplication creates without deleting the application found.
Lookup_noDelete(p) ==
    /\ Running
    /\ pc[p] = "getApplicationByName"
    /\ \E x \in GetAllApplicationsResponses(directory, name[p]) :
         LET r == getApplicationByName(x.res, name[p])
             log == Append(calls[p], Call("GetAllApplications", x.res, ZeroUUID, x.res.Applications))
             l == [local[p] EXCEPT !.existingApp = r.app]
         IN  /\ Served(x)
             /\ IF r.err # errNil THEN Leave(p, r.err, log)
                ELSE IF op[p] = "CreateApplication"
                     THEN Goto(p, "createNewApplication", l, log)
                     ELSE IF r.app = Nil
                          THEN Leave(p, errNil, log)
                          ELSE Goto(p, "deleteApplication", l, log)
    /\ UNCHANGED <<c, nextID, fetches>>

\* getApplicationByName, and what the caller does with its result.
Lookup(p) ==
    /\ Running
    /\ pc[p] = "getApplicationByName"
    /\ \E x \in GetAllApplicationsResponses(directory, name[p]) :
         LET r == getApplicationByName(x.res, name[p])
             log == Append(calls[p], Call("GetAllApplications", x.res, ZeroUUID, x.res.Applications))
             l == [local[p] EXCEPT !.existingApp = r.app]
         IN  /\ Served(x)
             /\ IF r.err # errNil THEN Leave(p, r.err, log)
                ELSE IF op[p] = "CreateApplication"
                     THEN Goto(p, IF r.app # Nil THEN "DeleteApplicationWithResponse"
                                                 ELSE "createNewApplication", l, log)
                     ELSE IF r.app = Nil
                          THEN Leave(p, errNil, log)
                          ELSE Goto(p, "deleteApplication", l, log)
    /\ UNCHANGED <<c, nextID, fetches>>

\* CreateApplication: the existing application is deleted.
DeleteExisting(p) ==
    /\ Running
    /\ pc[p] = "DeleteApplicationWithResponse"
    /\ LET id == Deref(local[p].existingApp).id
       IN  \E x \in DeleteApplicationResponses(directory, id) :
             LET err == deleteExisting(x.res)
                 log == Append(calls[p], Call("DeleteApplication", x.res, id, Nil))
             IN  /\ Served(x)
                 /\ IF err # errNil THEN Leave(p, err, log)
                    ELSE Goto(p, "createNewApplication", local[p], log)
    /\ UNCHANGED <<c, nextID, fetches>>

CreateNew(p) ==
    /\ Running
    /\ pc[p] = "createNewApplication"
    /\ \E x \in CreateApplicationResponses(directory, name[p], nextID) :
         LET r == createNewApplication(x.res)
             id == IF x.dir = directory THEN ZeroUUID ELSE nextID
             log == Append(calls[p], Call("CreateApplication", x.res, id, Ptr(x.res.Location)))
         IN  /\ Served(x)
             /\ nextID' = IF x.dir = directory THEN nextID ELSE nextID + 1
             /\ IF r.err # errNil THEN Leave(p, r.err, log)
                ELSE Goto(p, "createSecret", [local[p] EXCEPT !.appID = r.id], log)
    /\ UNCHANGED <<c, fetches>>

\* A failed createSecret is followed by the deletion of the new application.
CreateSecret_rollback(p) ==
    /\ Running
    /\ pc[p] = "createSecret"
    /\ \E x \in CreateApiSecretResponses(directory, local[p].appID) :
         LET r == createSecret(x.res)
             log == Append(calls[p], Call("CreateApiSecret", x.res, local[p].appID, x.res.Secret))
             undone == {a \in x.dir : a.id # local[p].appID}
         IN  /\ IF r.err # errNil
                THEN /\ Served([x EXCEPT !.dir = undone])
                     /\ Leave(p, r.err, log)
                ELSE /\ Served(x)
                     /\ Goto(p, "getClientID", [local[p] EXCEPT !.clientSecret = r.secret], log)
    /\ UNCHANGED <<c, nextID, fetches>>

CreateSecret(p) ==
    /\ Running
    /\ pc[p] = "createSecret"
    /\ \E x \in CreateApiSecretResponses(directory, local[p].appID) :
         LET r == createSecret(x.res)
             log == Append(calls[p], Call("CreateApiSecret", x.res, local[p].appID, x.res.Secret))
         IN  /\ Served(x)
             /\ IF r.err # errNil THEN Leave(p, r.err, log)
                ELSE Goto(p, "getClientID", [local[p] EXCEPT !.clientSecret = r.secret], log)
    /\ UNCHANGED <<c, nextID, fetches>>

GetClientID(p) ==
    /\ Running
    /\ pc[p] = "getClientID"
    /\ \E x \in GetApplicationResponses(directory, local[p].appID) :
         LET r == getClientID(x.res)
             log == Append(calls[p], Call("GetApplication", x.res, local[p].appID, x.res.ClientId))
         IN  /\ Served(x)
             /\ IF r.err # errNil THEN Leave(p, r.err, log)
                ELSE Goto(p, "GetTokenURL", [local[p] EXCEPT !.clientID = r.clientID], log)
    /\ UNCHANGED <<c, nextID, fetches>>

\* Another goroutine is between its test of c.tokenURL, which found nil, and
\* its assignment: the only place from which a set field is assigned again.
RacingTokenURL(p) == \E q \in Procs \ {p} : pc[q] = "GetTokenEndpoint"

\* The same for c.jwksURI.
RacingJWKSURI(p) == \E q \in Procs \ {p} : pc[q] = "oidcGetJWKSURI"

\* GetJWKSURI, the read of the cache field in its return statement, and the
\* return statement of CreateApplication, the call holding the locals l.
\* The two are one step, taken when CreateApplication returns, as long as no
\* goroutine can assign the field in between; when one can, the read is a
\* step of its own, the value read is kept in the call's locals, and the
\* return is a later step.
readJWKSURI(p, l) ==
    IF pc[p] # "returnApplication" /\ RacingJWKSURI(p)
    THEN Goto(p, "returnApplication", [l EXCEPT !.jwksURI = c.jwksURI], calls[p])
    ELSE LET r == returnApplication(l, IF pc[p] = "returnApplication"
                                       THEN l.jwksURI ELSE c.jwksURI)
         IN  Return(p, r.err, r.app, calls[p], directory)

\* GetJWKSURI, the test of the cache field.  When the field is set the
\* return statement reads it: the field is never set back to nil, and as
\* long as no goroutine can assign it the read finds the same value whenever
\* it is made, so the test and the read are one step, taken when the read is
\* made.
testJWKSURI(p, l) ==
    IF c.jwksURI = Nil THEN Goto(p, "oidcGetJWKSURI", l, calls[p])
    ELSE IF RacingJWKSURI(p) THEN Goto(p, "returnJWKSURI", l, calls[p])
    ELSE readJWKSURI(p, l)

\* The token endpoint is fetched whether the cache field is set or not.
GetTokenURL_noCache(p) ==
    /\ Running
    /\ pc[p] = "GetTokenURL"
    /\ Goto(p, "GetTokenEndpoint", local[p], calls[p])
    /\ UNCHANGED <<c, directory, nextID, fetches, faults>>

\* GetTokenURL, the test of the cache field.  When the field is set the
\* return statement reads it again: the field is never set back to nil, and
\* as long as no goroutine can assign it the read finds the same value
\* whenever it is made, so the test and the read are one step.
GetTokenURL(p) ==
    /\ Running
    /\ pc[p] = "GetTokenURL"
    /\ IF c.tokenURL = Nil THEN Goto(p, "GetTokenEndpoint", local[p], calls[p])
       ELSE IF RacingTokenURL(p) THEN Goto(p, "returnTokenURL", local[p], calls[p])
       ELSE Goto(p, "GetJWKSURI", [local[p] EXCEPT !.tokenURL = c.tokenURL], calls[p])
    /\ UNCHANGED <<c, directory, nextID, fetches, faults>>

\* GetTokenURL, the fetch and the assignment to the cache field.
FetchTokenEndpoint(p) ==
    /\ Running
    /\ pc[p] = "GetTokenEndpoint"
    /\ fetches' = [fetches EXCEPT !.tokenURL = @ + 1]
    /\ \E x \in DiscoveryResponses(TokenEndpoints, ChangedTokenEndpoints, directory) :
         LET r == fetchDiscovery(x.res, errFetchTokenURL)
             log == Append(calls[p], Call("GetTokenEndpoint", x.res, ZeroUUID, x.res.val))
         IN  /\ Served(x)
             /\ IF r.err # errNil
                THEN /\ Leave(p, r.err, log)
                     /\ c' = c
                ELSE /\ c' = [c EXCEPT !.tokenURL = r.val]
                     /\ Goto(p, "returnTokenURL", local[p], log)
    /\ UNCHANGED <<nextID>>

\* GetTokenURL, the return statement after the assignment: the cache field
\* is read again, with no lock; what is returned is what the field holds
\* now, whichever goroutine assigned it last.  As long as no goroutine can
\* assign the field, the read finds the same value whenever it is made, and
\* is one step with the test of c.jwksURI that follows it.
ReturnTokenURL(p) ==
    /\ Running
    /\ pc[p] = "returnTokenURL"
    /\ LET l == [local[p] EXCEPT !.tokenURL = c.tokenURL]
       IN  IF RacingTokenURL(p)
           THEN Goto(p, "GetJWKSURI", l, calls[p])
           ELSE testJWKSURI(p, l)
    /\ UNCHANGED <<c, directory, nextID, fetches, faults>>

\* GetJWKSURI, the test of the cache field.  When the field is set the
\* return statement reads it: the field is never set back to nil, so the
\* test would find it set at the time of that read as well, and the test
\* and the read are one step, taken when the read is made.
GetJWKSURI(p) ==
    /\ Running
    /\ pc[p] = "GetJWKSURI"
    /\ testJWKSURI(p, local[p])
    /\ UNCHANGED <<c, directory, nextID, fetches, faults>>

\* A failed fetch of the JWKS URI clears the token URL field.
FetchJWKSURI_invalidate(p) ==
    /\ Running
    /\ pc[p] = "oidcGetJWKSURI"
    /\ fetches' = [fetches EXCEPT !.jwksURI = @ + 1]
    /\ \E x \in DiscoveryResponses(JWKSURIs, ChangedJWKSURIs, directory) :
         LET r == fetchDiscovery(x.res, errFetchJWKSURI)
             log == Append(calls[p], Call("GetJWKSURI", x.res, ZeroUUID, x.res.val))
         IN  /\ Served(x)
             /\ IF r.err # errNil
                THEN /\ Leave(p, r.err, log)
                     /\ c' = [c EXCEPT !.tokenURL = Nil]
                ELSE /\ c' = [c EXCEPT !.jwksURI = r.val]
                     /\ Goto(p, "returnJWKSURI", local[p], log)
    /\ UNCHANGED <<nextID>>

\* GetJWKSURI, the fetch and the assignment to the cache field.
FetchJWKSURI(p) ==
    /\ Running
    /\ pc[p] = "oidcGetJWKSURI"
    /\ fetches' = [fetches EXCEPT !.jwksURI = @ + 1]
    /\ \E x \in DiscoveryResponses(JWKSURIs, ChangedJWKSURIs, directory) :
         LET r == fetchDiscovery(x.res, errFetchJWKSURI)
             log == Append(calls[p], Call("GetJWKSURI", x.res, ZeroUUID, x.res.val))
         IN  /\ Served(x)
             /\ IF r.err # errNil
                THEN /\ Leave(p, r.err, log)
                     /\ c' = c
                ELSE /\ c' = [c EXCEPT !.jwksURI = r.val]
                     /\ Goto(p, "returnJWKSURI", local[p], log)
    /\ UNCHANGED <<nextID>>

\* GetJWKSURI, the return statement after the assignment: the cache field
\* is read again, with no lock, and what is returned is what the field holds
\* then, whichever goroutine assigned it last; and the return statement of
\* CreateApplication after a read that was a step of its own.
ReturnJWKSURI(p) ==
    /\ Running
    /\ pc[p] \in {"returnJWKSURI", "returnApplication"}
    /\ readJWKSURI(p, local[p])
    /\ UNCHANGED <<c, directory, nextID, fetches, faults>>

\* The return statement after a remote call: of an error, or of nil by
\* DeleteApplication.
ReturnErr(p) ==
    /\ Running
    /\ pc[p] = "return"
    /\ Return(p, local[p].err, ZeroApplication, calls[p], directory)
    /\ UNCHANGED <<c, directory, nextID, fetches, faults>>

\* DeleteApplication deletes some application of the tenant, not the one found.
Delete_anyApplication(p) ==
    /\ Running
    /\ pc[p] = "deleteApplication"
    /\ \E id \in {a.id : a \in directory} \cup {Deref(local[p].existingApp).id} :
         \E x \in DeleteApplicationResponses(directory, id) :
             LET err == deleteApplication(x.res)
                 log == Append(calls[p], Call("DeleteApplication", x.res, id, Nil))
             IN  /\ Served(x)
                 /\ Leave(p, err, log)
    /\ UNCHANGED <<c, nextID, fetches>>

\* DeleteApplication: deleteApplication of the application found.
Delete(p) ==
    /\ Running
    /\ pc[p] = "deleteApplication"
    /\ LET id == Deref(local[p].existingApp).id
       IN  \E x \in DeleteApplicationResponses(directory, id) :
             LET err == deleteApplication(x.res)
                 log == Append(calls[p], Call("DeleteApplication", x.res, id, Nil))
             IN  /\ Served(x)
                 /\ Leave(p, err, log)
    /\ UNCHANGED <<c, nextID, fetches>>

Step(p) ==
    \/ \E n \in Names : CreateApplication(p, n)
    \/ \E n \in Names : DeleteApplication(p, n)
    \/ Lookup(p)
    \/ DeleteExisting(p)
    \/ CreateNew(p)
    \/ CreateSecret(p)
    \/ GetClientID(p)
    \/ GetTokenURL(p)
    \/ FetchTokenEndpoint(p)
    \/ ReturnTokenURL(p)
    \/ GetJWKSURI(p)
    \/ FetchJWKSURI(p)
    \/ ReturnJWKSURI(p)
    \/ Delete(p)
    \/ ReturnErr(p)

Next == \E p \in Procs : Step(p)

Spec == Init /\ [][Next]_vars

\* Sequential use: one goroutine makes the invocations, one after the other,
\* and the directory begins with at most one record per name.
SeqInit ==
    InitClient /\ concurrent = FALSE /\ directory \in {d \in InitDirectories : UniqueNames(d)}

SeqSpec == SeqInit /\ [][Next]_vars

\* Sequential use of a directory that may hold several records of one name.
SeqAnyInit == InitClient /\ concurrent = FALSE /\ directory \in InitDirectories

SeqAnySpec == SeqAnyInit /\ [][Next]_vars

\* ================================================================= claims
\* The goroutine p has returned from an invocation of o and begun no other.
Returned(p, o) == pc[p] = "idle" /\ result[p].op = o

\* The same, or the invocation ended in a panic.
Ended(p, o) == pc[p] \in {"idle", "panicked"} /\ result[p].op = o

NamedRecords(dir, n) == {a \in dir : a.name = n}

\* The calls of p's invocation: of the one under way, or of the one returned.
Log(p) == IF pc[p] \in {"idle", "panicked"} THEN result[p].calls ELSE calls[p]

\* The operation of that invocation.
Op(p) == IF pc[p] \in {"idle", "panicked"} THEN result[p].op ELSE op[p]

Answered(e, api, st) == e.api = api /\ ~e.neterr /\ e.status = st

\* The lookup answered "no match": 404, or 200 with an absent or empty list.
NoMatch(e) ==
    \/ Answered(e, "GetAllApplications", StatusNotFound)
    \/ Answered(e, "GetAllApplications", StatusOK) /\ e.val \in {Nil, Ptr({})}

\* The lookup answered more than one record.
MultipleMatch(e) ==
    /\ Answered(e, "GetAllApplications", StatusOK)
    /\ e.val # Nil
    /\ Cardinality(Deref(e.val)) > 1

\* The invocation of p has got the answer of its last remote call: it is at
\* the return statement after the call, or it has returned.
Over(p, o) == Returned(p, o) \/ (pc[p] = "return" /\ op[p] = o)

\* What that invocation returns at the return statement, or what it returned.
Outcome(p) ==
    IF pc[p] = "return"
    THEN Result(op[p], name[p], local[p].err, ZeroApplication, calls[p], before[p],
                IF concurrent THEN {} ELSE directory)
    ELSE result[p]

\* The step of an invocation at the return statement after a remote call
\* returns: the invocation makes no other call and returns what Outcome says.
ReturnsOutcome ==
    \A p \in Procs :
      pc[p] = "return" /\ pc'[p] # pc[p] => pc'[p] = "idle" /\ result'[p] = Outcome(p)

\* The calls of log with the api.
CallsOf(log, api) == {i \in 1 .. Len(log) : log[i].api = api}

\* ---------------------------------------------------------------------- C1
\* C1: under sequential use, from a directory with at most one record per
\* name, no two records ever have the same name, and when CreateApplication(n)
\* has returned without error exactly one record is named n.
C1_OneRecordPerName ==
    /\ UniqueNames(directory)
    /\ \A p \in Procs :
         Returned(p, "CreateApplication") /\ result[p].err = errNil
           => Cardinality(NamedRecords(directory, result[p].name)) = 1

\* Two CreateApplication(n) in a row, both successful, have returned.
C1_Witness ==
    /\ Returned(1, "CreateApplication") /\ result[1].err = errNil
    /\ prev.op = "CreateApplication" /\ prev.err = errNil
    /\ prev.name = result[1].name
    /\ Cardinality(NamedRecords(directory, result[1].name)) = 1

\* ---------------------------------------------------------------------- C2
\* C2: in CreateApplication, when the delete of the existing application is
\* answered 404, the call goes on to the create call; it does not return
\* after the delete.
C2_Delete404ProceedsToCreate ==
    \A p \in Procs :
      Op(p) = "CreateApplication" =>
        \A i \in 1 .. Len(Log(p)) :
          Answered(Log(p)[i], "DeleteApplication", StatusNotFound)
            => \/ Len(Log(p)) > i /\ Log(p)[i + 1].api = "CreateApplication"
               \/ Len(Log(p)) = i /\ pc[p] = "createNewApplication"

\* ---------------------------------------------------------------------- C3
\* C3: CreateApplication either returns no error and an Application whose
\* five fields are all non-empty, or it returns an error and no Application.
C3_FieldsNonEmptyOrError ==
    \A p \in Procs :
      Ended(p, "CreateApplication") =>
        LET r == result[p]
        IN  IF r.err = errNil
            THEN /\ r.app.id # "" /\ r.app.clientID # "" /\ r.app.clientSecret # ""
                 /\ r.app.tokenURL # "" /\ r.app.jwksURI # ""
            ELSE r.err # panicNilDereference /\ r.app = ZeroApplication

\* ---------------------------------------------------------------------- C4
\* C4 as stated: each discovery fetch is issued at most once by the client,
\* whatever the fetches answer.
C4_AtMostOneFetch == fetches.tokenURL <= 1 /\ fetches.jwksURI <= 1

\* C4, amended: once a cache field holds a value no fetch of that field is
\* issued and the field keeps the value, and a successful CreateApplication
\* returns the cached values.
C4_NoFetchOnceCached ==
    /\ [][/\ c.tokenURL # Nil
             => fetches'.tokenURL = fetches.tokenURL /\ c'.tokenURL = c.tokenURL
          /\ c.jwksURI # Nil
             => fetches'.jwksURI = fetches.jwksURI /\ c'.jwksURI = c.jwksURI]_vars
    /\ [](\A p \in Procs :
            Returned(p, "CreateApplication") /\ result[p].err = errNil
              => /\ c.tokenURL = Ptr(result[p].app.tokenURL)
                 /\ c.jwksURI = Ptr(result[p].app.jwksURI))

\* A successful CreateApplication that fetched neither value, after fetches
\* that failed and fetches that filled the cache.
C4_Witness ==
    /\ Returned(1, "CreateApplication") /\ result[1].err = errNil
    /\ CallsOf(result[1].calls, "GetTokenEndpoint") = {}
    /\ CallsOf(result[1].calls, "GetJWKSURI") = {}
    /\ fetches.tokenURL >= 1 /\ fetches.jwksURI >= 1

\* ---------------------------------------------------------------------- C5
\* C5: under sequential use of any directory, an invocation whose lookup
\* answers more than one record makes no other remote call, returns the
\* multiple-applications error and leaves the directory as it was: from the
\* answer on it is at its return statement with that error, or has returned
\* it, and the step at the return statement returns what it is there with.
C5_MultipleMatchFails ==
    /\ [](\A p \in Procs :
            Len(Log(p)) >= 1 /\ MultipleMatch(Log(p)[1])
              => /\ Over(p, Op(p))
                 /\ Outcome(p).err = errMultipleApplications
                 /\ Outcome(p).app = ZeroApplication
                 /\ Len(Outcome(p).calls) = 1
                 /\ Outcome(p).after = Outcome(p).before /\ directory = Outcome(p).before)
    /\ [][ReturnsOutcome]_vars

\* CreateApplication and then DeleteApplication of a name with two records
\* have returned.
C5_Witness ==
    /\ Returned(1, "DeleteApplication")
    /\ MultipleMatch(result[1].calls[1])
    /\ result[1].err = errMultipleApplications
    /\ prev.op = "CreateApplication" /\ prev.name = result[1].name
    /\ prev.err = errMultipleApplications
    /\ Cardinality(NamedRecords(directory, result[1].name)) = 2

\* ---------------------------------------------------------------------- C6
\* C6: DeleteApplication whose lookup answers no match returns no error, has
\* made the lookup and no other call, and leaves the directory as it was: from
\* the answer on it is at its return statement with no error, or has
\* returned, and the step at the return statement returns what it is there with.
C6_DeleteNoRecord ==
    /\ [](\A p \in Procs :
            Op(p) = "DeleteApplication" /\ Len(Log(p)) >= 1 /\ NoMatch(Log(p)[1])
              => /\ Over(p, "DeleteApplication")
                 /\ Outcome(p).err = errNil
                 /\ Len(Outcome(p).calls) = 1
                 /\ Outcome(p).after = Outcome(p).before /\ directory = Outcome(p).before)
    /\ [][ReturnsOutcome]_vars

\* DeleteApplication returned after a lookup answered 200 with an absent list.
C6_Witness ==
    /\ Returned(1, "DeleteApplication")
    /\ Answered(result[1].calls[1], "GetAllApplications", StatusOK)
    /\ result[1].calls[1].val = Nil
    /\ result[1].before # {}

\* ---------------------------------------------------------------------- C7
\* C7: under sequential use, when DeleteApplication(n) has returned without
\* error no record is named n; when the invocation before it was a
\* DeleteApplication(n) that returned without error, then this one, once its
\* lookup is answered, returns without error and leaves the directory as it was.
C7_DeleteIdempotent ==
    \A p \in Procs :
      Returned(p, "DeleteApplication") =>
        LET r == result[p]
        IN  /\ r.err = errNil => NamedRecords(directory, r.name) = {}
            /\ (/\ prev.op = "DeleteApplication" /\ prev.name = r.name /\ prev.err = errNil
                /\ ~r.calls[1].neterr /\ r.calls[1].status \notin OtherStatuses)
                 => r.err = errNil /\ r.after = r.before /\ directory = r.before

\* DeleteApplication(n) deleted a record and the DeleteApplication(n) after it
\* returned without error.
C7_Witness ==
    /\ Returned(1, "DeleteApplication") /\ result[1].err = errNil
    /\ prev.op = "DeleteApplication" /\ prev.name = result[1].name /\ prev.err = errNil
    /\ prev.deleted # {}
    /\ result[1].after = result[1].before

\* ---------------------------------------------------------------------- C8
\* C8: under sequential use, when CreateApplication(n) failed after its record
\* was created and the CreateApplication(n) after it returned without error,
\* the first record is gone and the only record named n is the one whose
\* identifier the second call returned.
C8_RetryCleansUp ==
    \A p \in Procs :
      (/\ Returned(p, "CreateApplication") /\ result[p].err = errNil
       /\ prev.op = "CreateApplication" /\ prev.name = result[p].name
       /\ prev.err # errNil /\ prev.created # ZeroUUID)
        => /\ \A a \in directory : a.id # prev.created
           /\ {UUIDString(a.id) : a \in NamedRecords(directory, result[p].name)}
                = {result[p].app.id}

\* The retry returned after a CreateApplication that failed with its record
\* created.
C8_Witness ==
    /\ Returned(1, "CreateApplication") /\ result[1].err = errNil
    /\ prev.op = "CreateApplication" /\ prev.name = result[1].name
    /\ prev.err = errCreateAPISecret /\ prev.created # ZeroUUID
    /\ Answered(result[1].calls[2], "DeleteApplication", StatusOK)
    /\ result[1].calls[2].id = prev.created

\* ---------------------------------------------------------------------- C9
\* The value the call of log with the api was answered with.
ValueOf(log, api) == log[CHOOSE i \in CallsOf(log, api) : TRUE].val

\* C9: a successful CreateApplication returns the identifier of the record its
\* create call created, the secret its create-secret call was answered with
\* and the client ID its fetch-by-id call was answered with; and two
\* successful CreateApplication(n) in a row, each given a secret by the
\* service, return different identifiers and different secrets.
C9_AssembledFromOwnResponses ==
    \A p \in Procs :
      Returned(p, "CreateApplication") /\ result[p].err = errNil =>
        LET r == result[p]
        IN  /\ r.app.id = UUIDString(Created(r.calls))
            /\ Ptr(r.app.clientSecret) = ValueOf(r.calls, "CreateApiSecret")
            /\ Ptr(r.app.clientID) = ValueOf(r.calls, "GetApplication")
            /\ CallsOf(r.calls, "GetTokenEndpoint") # {}
                 => Ptr(r.app.tokenURL) = ValueOf(r.calls, "GetTokenEndpoint")
            /\ CallsOf(r.calls, "GetJWKSURI") # {}
                 => Ptr(r.app.jwksURI) = ValueOf(r.calls, "GetJWKSURI")
            /\ (/\ prev.op = "CreateApplication" /\ prev.err = errNil
                /\ prev.name = r.name
                /\ prev.clientSecret # "" /\ r.app.clientSecret # "")
                 => r.app.id # prev.id /\ r.app.clientSecret # prev.clientSecret

\* Two successful CreateApplication(n) in a row, the second with both cache
\* fields set before it began.
C9_Witness ==
    /\ Returned(1, "CreateApplication") /\ result[1].err = errNil
    /\ prev.op = "CreateApplication" /\ prev.err = errNil /\ prev.name = result[1].name
    /\ prev.clientSecret # "" /\ result[1].app.clientSecret # ""
    /\ CallsOf(result[1].calls, "GetTokenEndpoint") = {}

\* --------------------------------------------------------------------- C10
\* C10: when the lookup is answered 404, CreateApplication makes the create
\* call next and never a delete call, and DeleteApplication makes no other
\* call and returns without error: from the answer on it is at its return
\* statement with no error, or has returned no error, and the step at the
\* return statement returns what it is there with.
C10_Lookup404IsNoMatch ==
    /\ [](\A p \in Procs :
            Len(Log(p)) >= 1 /\ Answered(Log(p)[1], "GetAllApplications", StatusNotFound)
              => IF Op(p) = "CreateApplication"
                 THEN /\ CallsOf(Log(p), "DeleteApplication") = {}
                      /\ IF Len(Log(p)) = 1 THEN pc[p] = "createNewApplication"
                         ELSE Log(p)[2].api = "CreateApplication"
                 ELSE /\ Over(p, "DeleteApplication")
                      /\ Outcome(p).err = errNil
                      /\ Len(Outcome(p).calls) = 1)
    /\ [][ReturnsOutcome]_vars

\* CreateApplication returned an Application and DeleteApplication returned,
\* both after a lookup answered 404.
C10_Witness ==
    /\ Returned(1, "CreateApplication") /\ result[1].err = errNil
    /\ Answered(result[1].calls[1], "GetAllApplications", StatusNotFound)
    /\ result[1].calls[2].api = "CreateApplication"
    /\ Returned(2, "DeleteApplication") /\ result[2].err = errNil
    /\ Answered(result[2].calls[1], "GetAllApplications", StatusNotFound)

\* --------------------------------------------------------------------- C11
\* C11: under concurrent use, when two CreateApplication(n) have both
\* returned without error after lookups that answered no match, neither made
\* a delete call, both made a create call answered 201, they returned
\* different identifiers, and the records named n that were created since
\* the start are these two: the name has two records.
C11_BothCreatesRemain ==
    \A p, q \in Procs :
      (/\ p # q
       /\ Returned(p, "CreateApplication") /\ result[p].err = errNil
       /\ Returned(q, "CreateApplication") /\ result[q].err = errNil
       /\ result[p].name = result[q].name
       /\ NoMatch(result[p].calls[1]) /\ NoMatch(result[q].calls[1]))
        => /\ CallsOf(result[p].calls, "DeleteApplication") = {}
           /\ Answered(result[p].calls[2], "CreateApplication", StatusCreated)
           /\ result[p].app.id # result[q].app.id
           /\ {UUIDString(a.id) : a \in {b \in NamedRecords(directory, result[p].name) :
                                           b.id > MaxInit}}
                = {result[p].app.id, result[q].app.id}

\* Both calls returned without error after no-match lookups of a name that
\* had no record, and the directory holds two records of that name.
C11_Witness ==
    /\ Returned(1, "CreateApplication") /\ result[1].err = errNil
    /\ Returned(2, "CreateApplication") /\ result[2].err = errNil
    /\ result[1].name = result[2].name
    /\ NoMatch(result[1].calls[1]) /\ NoMatch(result[2].calls[1])
    /\ Cardinality(NamedRecords(directory, result[1].name)) = 2
    /\ ~UniqueNames(directory)

\* --------------------------------------------------------------------- C12
\* The remote calls of CreateApplication in the order of the code.
CreateOrder ==
    <<"GetAllApplications", "DeleteApplication", "CreateApplication", "CreateApiSecret",
      "GetApplication", "GetTokenEndpoint", "GetJWKSURI">>

Rank(api) == CHOOSE i \in 1 .. Len(CreateOrder) : CreateOrder[i] = api

\* The answer e makes the step of CreateApplication that got it fail: the
\* transport failed, the status is not the one the step wants, the lookup
\* found more than one record, the Location of the new record cannot be
\* read, or the discovery document has no value.
Failed(e) ==
    \/ e.neterr
    \/ e.api = "GetAllApplications"
         /\ (e.status \notin {StatusOK, StatusNotFound} \/ MultipleMatch(e))
    \/ e.api \in {"DeleteApplication", "GetApplication"} /\ e.status # StatusOK
    \/ e.api = "CreateApplication"
         /\ (e.status # StatusCreated \/ ~extractApplicationID(Deref(e.val)).ok)
    \/ e.api = "CreateApiSecret" /\ e.status # StatusCreated
    \/ e.api \in {"GetTokenEndpoint", "GetJWKSURI"} /\ e.val = Nil

\* The calls of p's invocation after the step.
LogAfter(p) == IF pc'[p] \in {"idle", "panicked"} THEN result'[p].calls ELSE calls'[p]

\* C12: the remote calls of one CreateApplication are a prefix of lookup,
\* delete, create, create-secret, fetch-by-id, token-URL discovery, JWKS-URI
\* discovery.  The calls of an invocation change by one call at their end
\* only; the first call is the lookup; a call is made only after the call
\* before it was answered with success, it comes later in the order, and no
\* step between the two is left out but a discovery, or the delete when the
\* lookup found no record; the delete is made only when the lookup found a
\* record; the invocation goes to its return statement with an error exactly
\* when its call failed, and from there it makes no call and returns that
\* error; and a discovery fetch is the next step exactly when the cache
\* field is unset where the code tests it.
C12_CallsArePrefixOfFixedOrder ==
    [][\A p \in Procs :
         LET L == Log(p)
             M == LogAfter(p)
             e == M[Len(M)]
         IN  /\ \/ M = L
                \/ pc[p] = "idle" /\ M = <<>>
                \/ pc[p] \notin {"idle", "panicked"} /\ M = Append(L, e)
             /\ op[p] = "CreateApplication" /\ Len(M) > Len(L) =>
                  /\ Len(L) = 0 => e.api = "GetAllApplications"
                  /\ Len(L) > 0 =>
                       /\ ~Failed(L[Len(L)])
                       /\ Rank(e.api) > Rank(L[Len(L)].api)
                       /\ \A k \in Rank(L[Len(L)].api) + 1 .. Rank(e.api) - 1 :
                            \/ CreateOrder[k] \in {"GetTokenEndpoint", "GetJWKSURI"}
                            \/ CreateOrder[k] = "DeleteApplication" /\ NoMatch(L[1])
                  /\ e.api = "DeleteApplication" => ~NoMatch(L[1])
                  /\ Failed(e) <=> pc'[p] = "return"
                  /\ Failed(e) => local'[p].err # errNil
                  /\ e.api = "GetTokenEndpoint" => pc[p] = "GetTokenEndpoint"
                  /\ e.api = "GetJWKSURI" => pc[p] = "oidcGetJWKSURI"
             /\ pc[p] = "return" /\ pc'[p] # pc[p]
                  => pc'[p] = "idle" /\ result'[p] = Outcome(p)
             /\ pc[p] = "GetTokenURL" /\ pc'[p] # pc[p]
                  => (pc'[p] = "GetTokenEndpoint" <=> c.tokenURL = Nil)
             /\ pc[p] = "GetJWKSURI" /\ pc'[p] # pc[p]
                  => (pc'[p] = "oidcGetJWKSURI" <=> c.jwksURI = Nil)
             /\ pc[p] = "returnTokenURL" /\ pc'[p] \notin {"returnTokenURL", "GetJWKSURI"}
                  => (pc'[p] = "oidcGetJWKSURI" <=> c.jwksURI = Nil)
             /\ pc'[p] = "GetTokenEndpoint" /\ pc[p] # pc'[p] => c.tokenURL = Nil
             /\ pc'[p] = "oidcGetJWKSURI" /\ pc[p] # pc'[p] => c.jwksURI = Nil]_vars

\* One CreateApplication made all seven calls and returned an Application;
\* the other made the lookup, the create call and the create-secret call,
\* which failed, and returned the error.
C12_Witness ==
    /\ Returned(1, "CreateApplication") /\ result[1].err = errNil
    /\ Len(result[1].calls) = 7
    /\ \A i \in 1 .. 7 : result[1].calls[i].api = CreateOrder[i]
    /\ Returned(2, "CreateApplication") /\ result[2].err = errCreateAPISecret
    /\ Len(result[2].calls) = 3
    /\ result[2].calls[3].api = "CreateApiSecret"

\* --------------------------------------------------------------------- C13
\* C13: under sequential use, no CreateApplication makes a delete call after
\* its create call, and when CreateApplication(n) has ended with an error
\* after its create call created a record, that record is in the directory
\* under the name n; the error is that of the step that failed.
C13_NoRollback ==
    \A p \in Procs :
      Op(p) = "CreateApplication" =>
        LET L == Log(p)
        IN  /\ \A i, j \in 1 .. Len(L) :
                 L[i].api = "CreateApplication" /\ L[j].api = "DeleteApplication" => j < i
            /\ (Ended(p, "CreateApplication") /\ result[p].err # errNil /\ Created(L) # ZeroUUID)
                 => /\ \E a \in directory : a.id = Created(L) /\ a.name = result[p].name
                    /\ \E a \in result[p].after : a.id = Created(L)
                    /\ LET e == L[Len(L)]
                       IN  /\ e.api = "CreateApiSecret" /\ ~e.neterr /\ Failed(e)
                             => result[p].err = errCreateAPISecret
                           /\ e.api = "GetApplication" /\ ~e.neterr /\ Failed(e)
                             => result[p].err = errRetrieveClientID
                           /\ e.api = "GetTokenEndpoint" /\ ~e.neterr /\ Failed(e)
                             => result[p].err = errFetchTokenURL
                           /\ e.api = "GetJWKSURI" /\ ~e.neterr /\ Failed(e)
                             => result[p].err = errFetchJWKSURI

\* CreateApplication(n) replaced a record, failed at the create-secret call
\* and returned the error; the record it created is the one named n.
C13_Witness ==
    /\ Returned(1, "CreateApplication") /\ result[1].err = errCreateAPISecret
    /\ Len(result[1].calls) = 4
    /\ Answered(result[1].calls[2], "DeleteApplication", StatusOK)
    /\ Answered(result[1].calls[3], "CreateApplication", StatusCreated)
    /\ NamedRecords(directory, result[1].name)
         = {[id |-> Created(result[1].calls), name |-> result[1].name,
             secret |-> Nil, clientId |-> Nil]}

\* --------------------------------------------------------------------- C14
\* C14: under sequential use, once the delete call of CreateApplication(n)
\* was answered 200 and until its create call creates a record, no record is
\* named n: so it is when the invocation is between the two calls, and when
\* the create call failed, in which case the invocation makes no other call
\* and returns the error of the create call (the transport error, "failed to
\* create application" for a status other than 201): it is at its return
\* statement with that error or has returned it, and the step at the return
\* statement returns what it is there with.  While the invocation is
\* between the create call and the create-secret call, the only record named
\* n is the new one, and it has no secret and no client ID.
C14_NotTransactional ==
    /\ [](\A p \in Procs :
            Op(p) = "CreateApplication" =>
              LET L == Log(p)
                  n == IF pc[p] = "idle" THEN result[p].name ELSE name[p]
              IN  /\ (Len(L) = 2 /\ Answered(L[2], "DeleteApplication", StatusOK))
                       => pc[p] = "createNewApplication" /\ NamedRecords(directory, n) = {}
                  /\ (/\ Len(L) >= 3 /\ Answered(L[2], "DeleteApplication", StatusOK)
                      /\ (L[3].neterr \/ L[3].status # StatusCreated))
                       => /\ Over(p, "CreateApplication") /\ Len(L) = 3
                          /\ Outcome(p).err = IF L[3].neterr THEN errTransport
                                              ELSE errCreateApplication
                          /\ Outcome(p).app = ZeroApplication
                          /\ NamedRecords(directory, n) = {}
                  /\ pc[p] = "createSecret"
                       => /\ L[Len(L)].api = "CreateApplication"
                          /\ NamedRecords(directory, n)
                               = {[id |-> local[p].appID, name |-> n, secret |-> Nil,
                                   clientId |-> Nil]})
    /\ [][ReturnsOutcome]_vars

\* CreateApplication(n) deleted the record named n, its create call was
\* answered 500, and it returned the error: no record is named n.
C14_Witness ==
    /\ Returned(1, "CreateApplication") /\ result[1].err = errCreateApplication
    /\ Len(result[1].calls) = 3
    /\ Answered(result[1].calls[2], "DeleteApplication", StatusOK)
    /\ result[1].calls[3].api = "CreateApplication" /\ ~result[1].calls[3].neterr
    /\ NamedRecords(result[1].before, result[1].name) # {}
    /\ NamedRecords(directory, result[1].name) = {}

\* --------------------------------------------------------------------- C15
\* A discovery fetch of the api was answered with the value v so far.
Fetched(api, v) ==
    \E p \in Procs : \E i \in 1 .. Len(Log(p)) :
       Log(p)[i].api = api /\ Log(p)[i].val = v

\* A discovery fetch of the api was answered with a value so far.
FetchedAny(api) ==
    \E p \in Procs : \E i \in 1 .. Len(Log(p)) :
       Log(p)[i].api = api /\ Log(p)[i].val # Nil

\* C15: under concurrent use, a cache field that is set holds a value that a
\* discovery fetch of that field was answered with, once a fetch of a field
\* was answered with a value the field is set, and the token URL and the
\* JWKS URI of a returned Application are values that fetches of the client
\* were answered with, by this invocation or by another.
C15_CachedValueWasFetched ==
    /\ c.tokenURL # Nil => Fetched("GetTokenEndpoint", c.tokenURL)
    /\ c.jwksURI # Nil => Fetched("GetJWKSURI", c.jwksURI)
    /\ FetchedAny("GetTokenEndpoint") => c.tokenURL # Nil
    /\ FetchedAny("GetJWKSURI") => c.jwksURI # Nil
    /\ \A p \in Procs :
         Returned(p, "CreateApplication") /\ result[p].err = errNil
           => /\ Fetched("GetTokenEndpoint", Ptr(result[p].app.tokenURL))
              /\ Fetched("GetJWKSURI", Ptr(result[p].app.jwksURI))

\* Two CreateApplication began with the cache empty; each made the token URL
\* fetch and the JWKS URI fetch, all four were answered with a value, the
\* token URL fetches with different ones, and both calls returned an
\* Application: the cache holds the token URL that goroutine 1 was answered,
\* and goroutine 2, which assigned first, returned that one and not its own.
C15_Witness ==
    /\ fetches.tokenURL = 2 /\ fetches.jwksURI = 2
    /\ \A p \in Procs :
         /\ Returned(p, "CreateApplication") /\ result[p].err = errNil
         /\ CallsOf(result[p].calls, "GetTokenEndpoint") # {}
         /\ CallsOf(result[p].calls, "GetJWKSURI") # {}
         /\ ValueOf(result[p].calls, "GetJWKSURI") = c.jwksURI
    /\ ValueOf(result[1].calls, "GetTokenEndpoint") # ValueOf(result[2].calls, "GetTokenEndpoint")
    /\ c.tokenURL = ValueOf(result[1].calls, "GetTokenEndpoint")
    /\ Ptr(result[2].app.tokenURL) = c.tokenURL

\* --------------------------------------------------------------------- C16
\* C16 as stated: when two concurrent DeleteApplication(n) have returned, the
\* service having answered every call without fault, both returned without
\* error and no record is named n, whatever the directory held.
C16_AnyDirectory ==
    \A p, q \in Procs :
      (/\ p # q /\ faults = 0
       /\ Returned(p, "DeleteApplication") /\ Returned(q, "DeleteApplication")
       /\ result[p].name = result[q].name)
        => /\ result[p].err = errNil /\ result[q].err = errNil
           /\ NamedRecords(directory, result[p].name) = {}

\* C16, amended: DeleteApplication whose delete call is answered 200 or 404
\* makes no other call and returns without error, and with any other status
\* it returns "failed to delete application": from the answer on it is at
\* its return statement with that result, or has returned it, and the step
\* at the return statement returns what it is there with.  And when two
\* concurrent DeleteApplication(n) have returned, the service having
\* answered every call without fault: if a lookup found more than one record
\* named n, both returned the multiple-applications error after the lookup
\* and the records named n are the ones the lookup found; otherwise both
\* returned without error and no record is named n.
C16_ConcurrentDeletesSucceed ==
    /\ [](/\ \A p \in Procs :
               Op(p) = "DeleteApplication" =>
                 \A i \in CallsOf(Log(p), "DeleteApplication") :
                   LET e == Log(p)[i]
                   IN  /\ Over(p, "DeleteApplication") /\ i = Len(Log(p))
                       /\ Outcome(p).err =
                            IF e.neterr THEN errTransport
                            ELSE IF e.status \in {StatusOK, StatusNotFound} THEN errNil
                            ELSE errDeleteApplication
          /\ \A p, q \in Procs :
               (/\ p # q /\ faults = 0
                /\ Returned(p, "DeleteApplication") /\ Returned(q, "DeleteApplication")
                /\ result[p].name = result[q].name)
                 => IF MultipleMatch(result[p].calls[1])
                    THEN /\ result[p].err = errMultipleApplications
                         /\ result[q].err = errMultipleApplications
                         /\ Len(result[p].calls) = 1 /\ Len(result[q].calls) = 1
                         /\ NamedRecords(directory, result[p].name)
                              = Deref(result[p].calls[1].val)
                    ELSE /\ result[p].err = errNil /\ result[q].err = errNil
                         /\ NamedRecords(directory, result[p].name) = {})
    /\ [][ReturnsOutcome]_vars

\* Both DeleteApplication(n) found the record; the delete call of one was
\* answered 200 and that of the other 404; both returned without error.
C16_Witness ==
    /\ Returned(1, "DeleteApplication") /\ Returned(2, "DeleteApplication")
    /\ result[1].name = result[2].name /\ faults = 0
    /\ Len(result[1].calls) = 2 /\ Len(result[2].calls) = 2
    /\ Answered(result[1].calls[2], "DeleteApplication", StatusOK)
    /\ Answered(result[2].calls[2], "DeleteApplication", StatusNotFound)
    /\ result[1].calls[2].id = result[2].calls[2].id
    /\ result[1].err = errNil /\ result[2].err = errNil
    /\ NamedRecords(directory, result[1].name) = {}

\* --------------------------------------------------------------------- C17
\* The step is p's discovery fetch at the position at: it was answered e, it
\* leaves the other field as it is, it sets the field to the value it was
\* answered, and with no value it leaves the field as it is and the
\* invocation goes to its return statement with the error.
FetchStep(p, at, api, field, other, errAbsent) ==
    pc[p] = at /\ pc'[p] # at =>
      LET e == LogAfter(p)[Len(LogAfter(p))]
      IN  /\ Len(LogAfter(p)) = Len(calls[p]) + 1
          /\ e.api = api
          /\ c'[other] = c[other]
          /\ IF ~e.neterr /\ e.val # Nil
             THEN c'[field] = e.val
             ELSE /\ c'[field] = c[field]
                  /\ pc'[p] = "return"
                  /\ local'[p].err = IF e.neterr THEN errTransport ELSE errAbsent

\* What every step does to the cache, whatever the use of the client: a
\* field changes only in a fetch of that field that was answered with a
\* value, and becomes that value; a fetch that fails or is answered with no
\* value leaves both fields as they are and CreateApplication returns the
\* error (that of the transport, "failed to fetch token url", "failed to
\* fetch jwks uri") and no Application; no fetch changes the other field.
CacheStep ==
    /\ c' # c => \E p \in Procs : pc[p] \in {"GetTokenEndpoint", "oidcGetJWKSURI"}
                                   /\ pc'[p] # pc[p]
    /\ \A p \in Procs :
         /\ FetchStep(p, "GetTokenEndpoint", "GetTokenEndpoint", "tokenURL", "jwksURI",
                      errFetchTokenURL)
         /\ FetchStep(p, "oidcGetJWKSURI", "GetJWKSURI", "jwksURI", "tokenURL",
                      errFetchJWKSURI)
         /\ pc[p] = "return" /\ pc'[p] # pc[p]
              => pc'[p] = "idle" /\ result'[p] = Outcome(p)

\* The step changes the field, which held a value: it is the fetch of a
\* goroutine, and the value the field held is one that the fetch of another
\* goroutine's invocation was answered with.
Overwrites(field, at, api) ==
    c[field] # Nil /\ c'[field] # c[field] =>
      \E p \in Procs :
        /\ pc[p] = at /\ pc'[p] # at
        /\ \E q \in Procs \ {p} : \E i \in CallsOf(Log(q), api) : Log(q)[i].val = c[field]

\* C17 as stated: the cache changes as CacheStep says, and a field that
\* holds a value keeps it in every step.
C17_CacheFieldsMonotonic ==
    [][/\ c.tokenURL # Nil => c'.tokenURL = c.tokenURL
       /\ c.jwksURI # Nil => c'.jwksURI = c.jwksURI
       /\ CacheStep]_vars

\* C17, amended: the cache changes as CacheStep says; a field that holds a
\* value holds a value after every step; an invocation goes to the fetch of a
\* field only when it found the field unset; and a field that holds a value
\* is changed only by the fetch of an invocation that runs concurrently with
\* the invocation whose fetch set it.
C17_CacheFieldsNeverCleared ==
    [][/\ c.tokenURL # Nil => c'.tokenURL # Nil
       /\ c.jwksURI # Nil => c'.jwksURI # Nil
       /\ CacheStep
       /\ \A p \in Procs :
            /\ pc'[p] = "GetTokenEndpoint" /\ pc[p] # pc'[p] => c.tokenURL = Nil
            /\ pc'[p] = "oidcGetJWKSURI" /\ pc[p] # pc'[p] => c.jwksURI = Nil
       /\ Overwrites("tokenURL", "GetTokenEndpoint", "GetTokenEndpoint")
       /\ Overwrites("jwksURI", "oidcGetJWKSURI", "GetJWKSURI")]_vars

\* Goroutine 1 fetched the token URL and set the field, and has not read it
\* yet; the fetch of goroutine 2, which had found the field unset, was
\* answered with another value and the field now holds that one.
C17_Witness ==
    /\ pc[1] = "returnTokenURL"
    /\ CallsOf(Log(2), "GetTokenEndpoint") # {}
    /\ c.tokenURL # Nil
    /\ c.tokenURL = ValueOf(Log(2), "GetTokenEndpoint")
    /\ c.tokenURL # ValueOf(calls[1], "GetTokenEndpoint")
    /\ c.jwksURI = Nil

\* --------------------------------------------------------------------- C18
\* C18: under sequential use, when CreateApplication(n) has returned without
\* error, the identifier it returned is that of a record of the directory,
\* which is named n, was created by the create call of this invocation (it
\* was not there when the invocation began), was deleted by no call of it,
\* and has a secret: the one the create-secret call of this invocation was
\* answered with, when it was answered with one.
C18_ReturnedRecordPresent ==
    \A p \in Procs :
      Returned(p, "CreateApplication") /\ result[p].err = errNil =>
        LET r == result[p]
        IN  /\ directory = r.after
            /\ \E a \in directory :
                 /\ UUIDString(a.id) = r.app.id
                 /\ a.name = r.name
                 /\ a.id = Created(r.calls)
                 /\ \A b \in r.before : b.id # a.id
                 /\ a.id \notin Deleted(r.calls)
                 /\ a.secret # Nil
                 /\ CallsOf(r.calls, "CreateApiSecret") # {}
                 /\ Answered(r.calls[CHOOSE i \in CallsOf(r.calls, "CreateApiSecret") : TRUE],
                             "CreateApiSecret", StatusCreated)
                 /\ ValueOf(r.calls, "CreateApiSecret") \notin {Nil, Ptr("")}
                      => a.secret = Ptr(r.app.clientSecret)

\* CreateApplication(n) deleted the record named n, created another and
\* returned it: the record of the returned identifier has the returned
\* secret, and the record found by the lookup is gone.
C18_Witness ==
    /\ Returned(1, "CreateApplication") /\ result[1].err = errNil
    /\ Deleted(result[1].calls) # {}
    /\ \A a \in directory : a.id \notin Deleted(result[1].calls)
    /\ \E a \in directory :
         /\ UUIDString(a.id) = result[1].app.id
         /\ a.name = result[1].name
         /\ a.secret = Ptr(result[1].app.clientSecret)
         /\ result[1].app.clientSecret # ""

\* --------------------------------------------------------------------- C19
\* The identifiers of the records of dir.
IDs(dir) == {a.id : a \in dir}

\* The identifiers the lookup of p's invocation was answered with.
LookedUp(p) ==
    IF Len(calls[p]) >= 1 /\ calls[p][1].api = "GetAllApplications" /\ calls[p][1].val # Nil
    THEN IDs(Deref(calls[p][1].val))
    ELSE {}

\* What the step of p's invocation does to the directory: it deletes only
\* records named as its argument that its lookup was answered with, it
\* creates only records of that name and only in CreateApplication, it
\* leaves the records of other names as they are, and the one record it
\* changes is the one it created, in CreateApplication.
Frame(p) ==
    /\ \A a \in directory :
         a.id \notin IDs(directory') => a.name = name[p] /\ a.id \in LookedUp(p)
    /\ \A a \in directory' :
         a.id \notin IDs(directory) => a.name = name[p] /\ op[p] = "CreateApplication"
    /\ {a \in directory : a.name # name[p]} = {a \in directory' : a.name # name[p]}
    /\ \A a \in directory' :
         a.id \in IDs(directory) /\ a \notin directory
           => /\ op[p] = "CreateApplication" /\ a.id = local[p].appID
              /\ \E b \in directory : b.id = a.id /\ b.name = a.name
    /\ op[p] = "DeleteApplication"
         => directory' \subseteq directory /\ nextID' = nextID

\* C19: in every interleaving, every step that changes the directory is the
\* step of an invocation and changes it within the frame: CreateApplication(n)
\* and DeleteApplication(n) delete only records that their own lookup for n
\* was answered with, create only records named n, and leave the records of
\* other names as they are; DeleteApplication creates no record and no
\* secret and makes no create call and no create-secret call.
C19_OnlyOwnName ==
    /\ [][directory' # directory
            => \E p \in Procs : pc[p] \notin {"idle", "panicked"} /\ pc'[p] # pc[p] /\ Frame(p)]_vars
    /\ [](\A p \in Procs :
            /\ Op(p) = "DeleteApplication"
                 => /\ CallsOf(Log(p), "CreateApplication") = {}
                    /\ CallsOf(Log(p), "CreateApiSecret") = {}
            /\ \A i \in CallsOf(Log(p), "DeleteApplication") :
                 /\ Log(p)[1].val # Nil
                 /\ \E a \in Deref(Log(p)[1].val) :
                      a.id = Log(p)[i].id
                        /\ a.name = (IF pc[p] \in {"idle", "panicked"} THEN result[p].name
                                     ELSE name[p]))

\* CreateApplication("svc-a") replaced the record of that name and
\* DeleteApplication("svc-a") deleted the new one, while the record named
\* "svc-b" stayed as it was.
C19_Witness ==
    /\ Returned(1, "CreateApplication") /\ result[1].name = "svc-a"
    /\ Returned(2, "DeleteApplication") /\ result[2].name = "svc-a"
    /\ Deleted(result[1].calls) # {} /\ Created(result[1].calls) # ZeroUUID
    /\ Deleted(result[2].calls) = {Created(result[1].calls)}
    /\ directory = {[id |-> 2, name |-> "svc-b", secret |-> Nil, clientId |-> Nil]}

====
